---- MODULE Spec2Model ----
(***************************************************************************)
(* minply: a model of src/minply.cpp.                                      *)
(*                                                                         *)
(* The program is one sequential thread (wmain) that calls, in order,      *)
(* GetDeviceMixFormat, TryReadWavDirect, DecodeAudioFile, ApplyFade,       *)
(* GenerateSilence and PlayAudio.  The state is wmain's locals, the        *)
(* locals of the function it is in, the position pc, the error stream,     *)
(* and the output device's ring buffer.  The operating system (COM, Media  *)
(* Foundation, WASAPI, the file system) is the environment: each call's    *)
(* outcome is drawn with \E.                                               *)
(*                                                                         *)
(* A file is its sequence of bytes; TryReadWavDirect parses the bytes as   *)
(* the code does.  A float sample is a record [m, k, gn, gd] standing for  *)
(* the value m * 2^(-k) * gn/gd: m * 2^(-k) is what the conversion to      *)
(* float32 produced and gn/gd is the gain ApplyFade multiplied it by.      *)
(***************************************************************************)
EXTENDS Integers, Sequences, FiniteSets, TLC

\* ------------------------------------------------------------------------
\* Bounds of the model
\* ------------------------------------------------------------------------

\* largest size field / payload of a data chunk, in bytes
MaxDataBytes == 4

\* largest ring-buffer capacity GetBufferSize reports, in frames
MaxCapacity == 2

\* largest number of ReadSample calls of one DecodeAudioFile run
MaxPulls == 2

\* largest number of float samples in one Media Foundation packet
MaxPacketSamples == 1

\* the mix formats the default endpoint may report
SampleRates == {2, 5}

ChannelCounts == {1, 2}

\* ------------------------------------------------------------------------
\* Program constants
\* ------------------------------------------------------------------------

ERR_INVALID_ARGS == 1

ERR_FILE_NOT_FOUND == 2

ERR_DECODE_FAILED == 3

ERR_WASAPI_INIT == 4

ERR_PLAYBACK_FAILED == 5

WAVE_FORMAT_PCM == 1

WAVE_FORMAT_IEEE_FLOAT == 3

WAVE_FORMAT_EXTENSIBLE == 65534

\* a format tag that is neither PCM nor float (MPEG layer 3)
WAVE_FORMAT_OTHER == 85

\* a float constant is <<mantissa, e>>, the value mantissa * 2^(-e).
\* SILENCE_DURATION = 0.7f is the float 0x3F333333
SILENCE_DURATION == <<11744051, 24>>

\* FADE_DURATION = 0.005f is the float 0x3BA3D70A
FADE_DURATION == <<10737418, 31>>

\* ------------------------------------------------------------------------
\* Bytes
\* ------------------------------------------------------------------------

Min(a, b) == IF a < b THEN a ELSE b

RIFF == <<82, 73, 70, 70>>

WAVE == <<87, 65, 86, 69>>

FMT_ == <<102, 109, 116, 32>>

DATA == <<100, 97, 116, 97>>

LIST == <<76, 73, 83, 84>>

\* ReadFile(hFile, buf, n) at file position pos: the bytes it delivers
\* (fewer than n at the end of the file, none beyond it)
ReadFile(bytes, pos, n) ==
    IF pos >= Len(bytes) THEN <<>>
    ELSE SubSeq(bytes, pos + 1, Min(pos + n, Len(bytes)))

\* a little-endian WORD / DWORD read from a byte sequence
LE16(b, off) == b[off + 1] + 256 * b[off + 2]

LE32(b, off) == b[off + 1] + 256 * b[off + 2] + 65536 * b[off + 3] + 16777216 * b[off + 4]

\* a signed little-endian 16 / 32 bit integer (reinterpret_cast<const intN_t*>)
Int16At(b, off) ==
    LET hi == IF b[off + 2] >= 128 THEN b[off + 2] - 256 ELSE b[off + 2]
    IN  hi * 256 + b[off + 1]

Int32At(b, off) ==
    LET hi == IF b[off + 4] >= 128 THEN b[off + 4] - 256 ELSE b[off + 4]
    IN  hi * 16777216 + b[off + 3] * 65536 + b[off + 2] * 256 + b[off + 1]

\* n zero bytes
Zeros(n) == [i \in 1..n |-> 0]

\* ------------------------------------------------------------------------
\* Samples
\* ------------------------------------------------------------------------

\* the float m * 2^(-k), in lowest terms (m odd, or 0)
RECURSIVE Dyadic(_, _)
Dyadic(m, k) ==
    IF m = 0 THEN [m |-> 0, k |-> 0, gn |-> 1, gd |-> 1]
    ELSE IF m % 2 = 0 THEN Dyadic(m \div 2, k - 1)
    ELSE [m |-> m, k |-> k, gn |-> 1, gd |-> 1]

\* 0.0f, the value std::vector<float>::resize and the silence buffer fill with
ZeroSample == Dyadic(0, 0)

\* a float32 bit pattern that is not a finite number (infinity, NaN)
NotFinite == [m |-> 0, k |-> 0, gn |-> 0, gd |-> 0]

\* the number of low bits static_cast<float> drops from a magnitude a < 2^31
RECURSIVE DroppedBits(_)
DroppedBits(a) == IF a < 16777216 THEN 0 ELSE 1 + DroppedBits(a \div 2)

\* static_cast<float>(v) / 2^scale for a 32-bit integer v: the cast rounds v to
\* 24 significant bits (to nearest, ties to even); the division is exact
IntToFloatScaled(v, scale) ==
    IF v = -2147483647 - 1 THEN Dyadic(-1, scale - 31)
    ELSE LET a    == IF v < 0 THEN -v ELSE v
             s    == DroppedBits(a)
             q    == a \div (2 ^ s)
             r    == a % (2 ^ s)
             half == IF s = 0 THEN 0 ELSE 2 ^ (s - 1)
             up   == s > 0 /\ (r > half \/ (r = half /\ q % 2 = 1))
             qq   == IF up THEN q + 1 ELSE q
         IN  Dyadic(IF v < 0 THEN -qq ELSE qq, scale - s)

\* a faulty variant of Reassemble24Shift: a logical shift of the 32-bit
\* pattern, zeros entering from the left
Reassemble24Shift_logical(word) ==
    IF word < 0 THEN word \div 256 + 16777216 ELSE word \div 256

\* lines 205-206: the 24-bit sample of bytes b0 b1 b2, as the int32 the code
\* computes: the bytes in bits 8..31 of a 32-bit word, shifted right by 8
\* (arithmetic shift of a signed int: floor division by 256)
Reassemble24Shift(word) == word \div 256

Reassemble24(b0, b1, b2) ==
    LET hi   == IF b2 >= 128 THEN b2 - 256 ELSE b2
        word == hi * 16777216 + b1 * 65536 + b0 * 256
    IN  Reassemble24Shift(word)

\* the float a 4-byte little-endian IEEE-754 pattern stands for (the raw copy of
\* line 184 reinterprets the file's bytes)
FloatOfBytes(b, off) ==
    LET neg  == b[off + 4] >= 128
        e    == (b[off + 4] % 128) * 2 + (b[off + 3] \div 128)
        frac == (b[off + 3] % 128) * 65536 + b[off + 2] * 256 + b[off + 1]
        sgn(x) == IF neg THEN -x ELSE x
    IN  IF e = 255 THEN NotFinite
        ELSE IF e = 0 THEN Dyadic(sgn(frac), 149)
        ELSE Dyadic(sgn(8388608 + frac), 150 - e)

\* std::vector<float>::resize(n): the first n elements kept, 0.0f appended
Resize(v, n) == [i \in 1..n |-> IF i <= Len(v) THEN v[i] ELSE ZeroSample]

\* ------------------------------------------------------------------------
\* TryReadWavDirect (lines 89-226)
\* ------------------------------------------------------------------------

\* lines 112-131: the scan for the "fmt " chunk from file position pos.
\* fmtBuf is the 40-byte zero-filled buffer with the bytes read copied over it
\* (the read of the chunk body is not checked for its length)
RECURSIVE FindFmtChunk(_, _)
FindFmtChunk(bytes, pos) ==
    LET chunkId == ReadFile(bytes, pos, 4)
        szBytes == ReadFile(bytes, pos + 4, 4)
    IN  IF Len(chunkId) # 4 \/ Len(szBytes) # 4
        THEN [fmtFound |-> FALSE, fmtBuf |-> Zeros(40)]
        ELSE LET chunkSize == LE32(szBytes, 0)
             IN  IF chunkId = FMT_
                 THEN IF chunkSize < 16
                      THEN [fmtFound |-> FALSE, fmtBuf |-> Zeros(40)]
                      ELSE LET fmtReadSize == Min(chunkSize, 40)
                               got == ReadFile(bytes, pos + 8, fmtReadSize)
                           IN  [fmtFound |-> TRUE,
                                fmtBuf |-> got \o Zeros(40 - Len(got))]
                 ELSE FindFmtChunk(bytes, pos + 8 + chunkSize)

\* lines 155-170: the scan for the "data" chunk from file position pos;
\* dataPos is the file position of the payload
RECURSIVE FindDataChunk(_, _)
FindDataChunk(bytes, pos) ==
    LET chunkId == ReadFile(bytes, pos, 4)
        szBytes == ReadFile(bytes, pos + 4, 4)
    IN  IF Len(chunkId) # 4 \/ Len(szBytes) # 4
        THEN [dataFound |-> FALSE, dataSize |-> 0, dataPos |-> pos]
        ELSE LET chunkSize == LE32(szBytes, 0)
             IN  IF chunkId = DATA
                 THEN [dataFound |-> TRUE, dataSize |-> chunkSize, dataPos |-> pos + 8]
                 ELSE FindDataChunk(bytes, pos + 8 + chunkSize)

\* lines 139-142: the format tag, taken from the SubFormat GUID of an
\* extensible format
ActualFormatTag(fmtBuf) ==
    LET wFormatTag == LE16(fmtBuf, 0)
        cbSize     == LE16(fmtBuf, 16)
    IN  IF wFormatTag = WAVE_FORMAT_EXTENSIBLE /\ cbSize >= 22
        THEN LE16(fmtBuf, 24)
        ELSE wFormatTag

\* lines 196-214: the conversion of the raw PCM payload to float32
ConvertPcm(rawData, bits, totalSamples) ==
    [i \in 1..totalSamples |->
        IF bits = 16 THEN IntToFloatScaled(Int16At(rawData, (i - 1) * 2), 15)
        ELSE IF bits = 24
        THEN IntToFloatScaled(Reassemble24(rawData[(i - 1) * 3 + 1],
                                           rawData[(i - 1) * 3 + 2],
                                           rawData[(i - 1) * 3 + 3]), 23)
        ELSE IntToFloatScaled(Int32At(rawData, (i - 1) * 4), 31)]

\* line 180: audioData.resize(totalSamples), before the payload is read
ResizeForPayload(audioData, totalSamples) == Resize(audioData, totalSamples)

\* lines 172-225: from the data chunk on.  The result is the return value,
\* the output vector as the call leaves it, and the branch that returned
ReadPayload(bytes, fmtBuf, tag, audioData) ==
    LET d              == FindDataChunk(bytes, 12)
        bits           == LE16(fmtBuf, 14)
        bytesPerSample == bits \div 8
        totalSamples   == d.dataSize \div bytesPerSample
        resized        == ResizeForPayload(audioData, totalSamples)
        got            == ReadFile(bytes, d.dataPos, d.dataSize)
    IN  IF ~d.dataFound \/ d.dataSize = 0
        THEN [ret |-> FALSE, audioData |-> audioData, cause |-> "data"]
        ELSE IF tag = WAVE_FORMAT_IEEE_FLOAT /\ bits = 32
        THEN IF Len(got) # d.dataSize
             THEN [ret |-> FALSE, cause |-> "read",
                   audioData |->
                     [i \in 1..totalSamples |->
                        IF (i - 1) * 4 < Len(got)
                        THEN FloatOfBytes(got \o Zeros(4), (i - 1) * 4)
                        ELSE resized[i]]]
             ELSE [ret |-> TRUE, cause |-> "float32",
                   audioData |-> [i \in 1..totalSamples |-> FloatOfBytes(got, (i - 1) * 4)]]
        ELSE IF tag = WAVE_FORMAT_PCM
        THEN IF Len(got) # d.dataSize
             THEN [ret |-> FALSE, audioData |-> resized, cause |-> "read"]
             ELSE IF bits \in {16, 24, 32}
             THEN [ret |-> TRUE, cause |-> "pcm",
                   audioData |-> ConvertPcm(got, bits, totalSamples)]
             ELSE [ret |-> FALSE, audioData |-> resized, cause |-> "bits"]
        ELSE [ret |-> FALSE, audioData |-> resized, cause |-> "repr"]

\* lines 89-226.  file is [canOpen, bytes]; audioData is the caller's vector
TryReadWavDirect(file, audioData, targetSampleRate, targetChannels) ==
    LET bytes  == file.bytes
        header == ReadFile(bytes, 0, 12)
        f      == FindFmtChunk(bytes, 12)
        tag    == ActualFormatTag(f.fmtBuf)
        fail(c) == [ret |-> FALSE, audioData |-> audioData, cause |-> c]
    IN  IF ~file.canOpen THEN fail("open")
        ELSE IF Len(header) # 12 THEN fail("header")
        ELSE IF SubSeq(header, 1, 4) # RIFF \/ SubSeq(header, 9, 12) # WAVE THEN fail("magic")
        ELSE IF ~f.fmtFound THEN fail("fmt")
        ELSE IF tag # WAVE_FORMAT_PCM /\ tag # WAVE_FORMAT_IEEE_FLOAT THEN fail("tag")
        ELSE IF LE32(f.fmtBuf, 4) # targetSampleRate \/ LE16(f.fmtBuf, 2) # targetChannels
             THEN fail("format")
        ELSE ReadPayload(bytes, f.fmtBuf, tag, audioData)

\* ------------------------------------------------------------------------
\* The files the program is run on
\* ------------------------------------------------------------------------

LE16Bytes(n) == <<n % 256, n \div 256>>

LE32Bytes(n) == <<n % 256, (n \div 256) % 256, (n \div 65536) % 256, n \div 16777216>>

\* the 40 bytes of a WAVEFORMATEXTENSIBLE: wFormatTag, nChannels,
\* nSamplesPerSec, nAvgBytesPerSec, nBlockAlign, wBitsPerSample, cbSize,
\* wValidBitsPerSample, dwChannelMask, SubFormat
FmtBody(tag, ch, rate, bits, cbSize, sub) ==
    LE16Bytes(tag) \o LE16Bytes(ch) \o LE32Bytes(rate)
    \o LE32Bytes(rate * ch * (bits \div 8)) \o LE16Bytes(ch * (bits \div 8))
    \o LE16Bytes(bits) \o LE16Bytes(cbSize) \o LE16Bytes(bits) \o LE32Bytes(0)
    \o LE16Bytes(sub) \o Zeros(14)

\* a chunk: 4-byte tag, 4-byte little-endian size, body
Chunk(id, size, body) == id \o LE32Bytes(size) \o body

\* the payload bytes of a data chunk
Payload(seed, n) == [i \in 1..n |-> (seed * i) % 256]

Seeds == {200}

\* a RIFF/WAVE file: an optional LIST chunk, the fmt chunk (fmtSize bytes of
\* the format body), the data chunk with `size` in its size field and
\* `size - missing` payload bytes actually in the file
MakeWav(p) ==
    [canOpen |-> TRUE,
     bytes |->
        RIFF \o LE32Bytes(0) \o WAVE
        \o (IF p.junk THEN Chunk(LIST, 2, <<1, 2>>) ELSE <<>>)
        \o (IF p.fmtSize = 0 THEN <<>>
            ELSE Chunk(FMT_, p.fmtSize,
                       SubSeq(FmtBody(p.tag, p.ch, p.rate, p.bits, p.cbSize, p.sub),
                              1, Min(p.fmtSize, 40))))
        \o (IF p.hasData
            THEN Chunk(DATA, p.size, Payload(p.seed, p.size - Min(p.missing, p.size)))
            ELSE <<>>)]

\* well-formed fmt chunks of every representation and bit depth, with data
\* chunks of every size up to MaxDataBytes, whole or one byte short.  A float32
\* payload is a whole number of samples (the code reads dataSize bytes into a
\* vector of dataSize/4 floats: anything else writes past the vector).
PayloadFiles ==
    { MakeWav([tag |-> t[1], cbSize |-> t[2], sub |-> t[3], fmtSize |-> t[4],
               ch |-> ch, rate |-> rate, bits |-> bits, junk |-> FALSE,
               hasData |-> TRUE, size |-> size, missing |-> missing, seed |-> seed]) :
        <<t, ch, rate, bits, size, missing, seed>> \in
          { q \in {<<WAVE_FORMAT_PCM, 0, 0, 16>>,
                   <<WAVE_FORMAT_IEEE_FLOAT, 0, 0, 18>>,
                   <<WAVE_FORMAT_EXTENSIBLE, 22, WAVE_FORMAT_PCM, 40>>}
                  \X ChannelCounts \X SampleRates \X {8, 16, 24, 32}
                  \X (0..MaxDataBytes) \X {0, 1} \X Seeds :
              q[1][1] = WAVE_FORMAT_IEEE_FLOAT /\ q[4] = 32 => q[5] % 4 = 0 } }

\* malformed or foreign containers: no fmt chunk, a short fmt chunk, a foreign
\* format tag, an extensible format without its extension, no data chunk, a
\* LIST chunk ahead of the others
OddFiles ==
    { MakeWav([tag |-> t[1], cbSize |-> t[2], sub |-> t[3], fmtSize |-> t[4],
               ch |-> ch, rate |-> rate, bits |-> 16, junk |-> t[5],
               hasData |-> t[6], size |-> 4, missing |-> 0, seed |-> 3]) :
        t \in {<<WAVE_FORMAT_PCM, 0, 0, 0, FALSE, TRUE>>,
               <<WAVE_FORMAT_PCM, 0, 0, 14, FALSE, TRUE>>,
               <<WAVE_FORMAT_OTHER, 0, 0, 16, FALSE, TRUE>>,
               <<WAVE_FORMAT_EXTENSIBLE, 0, WAVE_FORMAT_PCM, 40, FALSE, TRUE>>,
               <<WAVE_FORMAT_EXTENSIBLE, 22, WAVE_FORMAT_IEEE_FLOAT, 40, FALSE, TRUE>>,
               <<WAVE_FORMAT_PCM, 0, 0, 16, FALSE, FALSE>>,
               <<WAVE_FORMAT_PCM, 0, 0, 16, TRUE, TRUE>>},
        ch \in ChannelCounts, rate \in SampleRates }

\* files that are no RIFF/WAVE container, and one that cannot be opened
ForeignFiles ==
    { [canOpen |-> FALSE, bytes |-> <<>>],
      [canOpen |-> TRUE, bytes |-> <<73, 68, 51>>],
      [canOpen |-> TRUE, bytes |-> <<73, 68, 51, 4, 0, 0, 0, 0, 0, 0, 0, 0, 1, 2>>],
      [canOpen |-> TRUE, bytes |-> RIFF \o LE32Bytes(0) \o <<65, 86, 73, 32>>] }

Files == PayloadFiles \cup OddFiles \cup ForeignFiles

\* ------------------------------------------------------------------------
\* Signal shaper: GenerateSilence (lines 314-317), ApplyFade (lines 320-341)
\* ------------------------------------------------------------------------

\* the number of bits of a natural number
RECURSIVE BitLen(_)
BitLen(n) == IF n = 0 THEN 0 ELSE 1 + BitLen(n \div 2)

\* the float product of two floats <<mantissa, e>> (mantissas below 2^24):
\* the exact product, computed in 12-bit limbs, rounded to 24 significant
\* bits, to nearest with ties to even
FloatMul(x, y) ==
    LET a1 == x[1] \div 4096
        a0 == x[1] % 4096
        b1 == y[1] \div 4096
        b0 == y[1] % 4096
        mid == a1 * b0 + a0 * b1
        loSum == a0 * b0 + (mid % 4096) * 4096
        lo == loSum % 16777216
        hi == a1 * b1 + (mid \div 4096) + (loSum \div 16777216)
        s == BitLen(hi)
        q == hi * (2 ^ (24 - s)) + (lo \div (2 ^ s))
        r == lo % (2 ^ s)
        half == IF s = 0 THEN 0 ELSE 2 ^ (s - 1)
        up == s > 0 /\ (r > half \/ (r = half /\ q % 2 = 1))
    IN  <<IF up THEN q + 1 ELSE q, x[2] + y[2] - s>>

\* static_cast<size_t> / static_cast<UINT32> of a non-negative float: truncation
FloatToInt(x) ==
    IF x[2] > 24 THEN 0
    ELSE IF x[2] >= 0 THEN x[1] \div (2 ^ x[2])
    ELSE x[1] * (2 ^ (-x[2]))

\* line 315: sampleRate * SILENCE_DURATION * channels, left to right in float
SilenceSamples(sampleRate, channels) ==
    FloatToInt(FloatMul(FloatMul(<<sampleRate, 0>>, SILENCE_DURATION), <<channels, 0>>))

\* lines 314-317
GenerateSilence(sampleRate, channels) ==
    [i \in 1..SilenceSamples(sampleRate, channels) |-> ZeroSample]

\* line 321
FadeFrames(sampleRate) == FloatToInt(FloatMul(<<sampleRate, 0>>, FADE_DURATION))

\* audioData[idx] *= gain, for the gain n/d
Scale(sample, n, d) == [sample EXCEPT !.gn = sample.gn * n, !.gd = sample.gd * d]

\* a faulty variant of FadeInSample: the ramp starts one step too high
FadeInSample_offByOne(sample, fr, fadeFrames) ==
    IF fr < fadeFrames THEN Scale(sample, fr + 1, fadeFrames) ELSE sample

\* lines 326-331: the fade-in loop, on the frame fr of a sample
FadeInSample(sample, fr, fadeFrames) ==
    IF fr < fadeFrames THEN Scale(sample, fr, fadeFrames) ELSE sample

\* lines 334-340: the fade-out loop, on the frame fr of a sample
FadeOutSample(sample, fr, totalFrames, fadeFrames) ==
    IF fr >= totalFrames - fadeFrames /\ fr < totalFrames
    THEN Scale(sample, totalFrames - fr, fadeFrames)
    ELSE sample

\* a faulty variant of ApplyFade: no check for a buffer too short for the fade
ApplyFade_noGuard(audioData, sampleRate, channels) ==
    LET fadeFrames  == FadeFrames(sampleRate)
        totalFrames == Len(audioData) \div channels
    IN  [idx \in 1..Len(audioData) |->
            LET fr == (idx - 1) \div channels
            IN  FadeOutSample(FadeInSample(audioData[idx], fr, fadeFrames),
                              fr, totalFrames, fadeFrames)]

\* lines 320-341
ApplyFade(audioData, sampleRate, channels) ==
    LET fadeFrames  == FadeFrames(sampleRate)
        totalFrames == Len(audioData) \div channels
    IN  IF totalFrames < fadeFrames * 2 THEN audioData
        ELSE [idx \in 1..Len(audioData) |->
                LET fr == (idx - 1) \div channels
                IN  FadeOutSample(FadeInSample(audioData[idx], fr, fadeFrames),
                                  fr, totalFrames, fadeFrames)]

\* ------------------------------------------------------------------------
\* State
\* ------------------------------------------------------------------------

VARIABLES
    pc,               \* the statement the program is at
    exitCode,         \* wmain's exitCode; the process's exit code at "done"
    failedStage,      \* the stage wmain found failed, or "none"
    diag,             \* the lines written to std::cerr, in order
    trace,            \* the calls wmain has made, in order
    os,               \* calls of CoInitializeEx/CoUninitialize/MFStartup/MFShutdown/CoTaskMemFree
    mixFormat,        \* the WAVEFORMATEX GetDeviceMixFormat stored, or NoFormat
    decodedData,      \* wmain's std::vector<float> decodedData
    decoded,          \* wmain's bool decoded
    wavCause,         \* decode stage: the branch TryReadWavDirect returned from
    wavLeft,          \* decode stage: decodedData as TryReadWavDirect left it
    pulls,            \* decode stage: the ReadSample calls that went on to another
    mfFail,           \* decode stage: the calls of DecodeAudioFile's loop that failed
    silenceData,      \* wmain's silenceData
    rawData,          \* TryReadWavDirect's rawData, while the function runs
    held,             \* PlayAudio's non-null interfaces and handles
    released,         \* how often each was released
    bufferFrameCount, \* PlayAudio's bufferFrameCount
    source,           \* the index into sources[] of PlayAudio's for loop
    frameIndex,       \* PlayAudio's frameIndex
    waitResult,       \* PlayAudio's waitResult
    numFramesPadding, \* PlayAudio's numFramesPadding
    hrFailed,         \* FAILED(hr) in PlayAudio
    success,          \* PlayAudio's success
    clock,            \* the audio client: "idle", "running" (Start), "stopped" (Stop)
    padding,          \* the frames queued in the device's ring buffer
    rendered,         \* the samples handed to the device, in order
    writes,           \* the frames handed to the device, <<source, frame>>, in order
    playFail          \* the calls of PlayAudio that failed

vars == <<pc, exitCode, failedStage, diag, trace, os, mixFormat, decodedData, decoded, wavCause,
          wavLeft, pulls, mfFail, silenceData, rawData, held, released, bufferFrameCount,
          source, frameIndex, waitResult, numFramesPadding, hrFailed, success,
          clock, padding, rendered, writes, playFail>>

wmainVars == <<exitCode, failedStage, diag, trace, os, mixFormat, decodedData, decoded, wavCause,
               wavLeft, pulls, mfFail, silenceData, rawData>>

playVars == <<held, released, bufferFrameCount, source, frameIndex, waitResult,
              numFramesPadding, hrFailed, success, clock, padding, rendered, writes,
              playFail>>

NoFormat == [nSamplesPerSec |-> 0, nChannels |-> 0]

MixFormats == [nSamplesPerSec : SampleRates, nChannels : ChannelCounts]

Resources == {"deviceEnumerator", "device", "audioClient", "eventHandle", "renderClient"}

\* line 52: PrintError writes the line "Error: <message>" to std::cerr
PrintError(d, message) == Append(d, message)

Init ==
    /\ pc = "args"
    /\ exitCode = 0
    /\ failedStage = "none"
    /\ diag = <<>>
    /\ trace = <<>>
    /\ os = [CoInitializeEx |-> 0, CoUninitialize |-> 0, MFStartup |-> 0,
             MFShutdown |-> 0, CoTaskMemFree |-> 0]
    /\ mixFormat = NoFormat
    /\ decodedData = <<>>
    /\ decoded = FALSE
    /\ wavCause = "none"
    /\ wavLeft = <<>>
    /\ pulls = 0
    /\ mfFail = {}
    /\ silenceData = <<>>
    /\ rawData = <<>>
    /\ held = {}
    /\ released = [r \in Resources |-> 0]
    /\ bufferFrameCount = 0
    /\ source = 1
    /\ frameIndex = 0
    /\ waitResult = "none"
    /\ numFramesPadding = 0
    /\ hrFailed = FALSE
    /\ success = FALSE
    /\ clock = "idle"
    /\ padding = 0
    /\ rendered = <<>>
    /\ writes = <<>>
    /\ playFail = {}

\* ------------------------------------------------------------------------
\* wmain up to the decoders (lines 489-537)
\* ------------------------------------------------------------------------

\* lines 491-497
wmain_args ==
    /\ pc = "args"
    /\ \E argc \in 1..3 :
         IF argc # 2
         THEN /\ diag' = Append(PrintError(diag, "Invalid arguments"),
                                "Usage: minply.exe <audio file path>")
              /\ exitCode' = ERR_INVALID_ARGS
              /\ failedStage' = "argc"
              /\ pc' = "done"
         ELSE /\ pc' = "file"
              /\ UNCHANGED <<diag, exitCode, failedStage>>
    /\ trace' = Append(trace, "argc")
    /\ UNCHANGED <<os, mixFormat, decodedData, decoded, wavCause, wavLeft, pulls,
                   mfFail, silenceData, rawData>>
    /\ UNCHANGED playVars

\* a faulty variant of wmain_file: the return after "File not found" is missing
wmain_file_noReturn ==
    /\ pc = "file"
    /\ \E found \in BOOLEAN :
         IF ~found
         THEN /\ diag' = PrintError(diag, "File not found")
              /\ exitCode' = ERR_FILE_NOT_FOUND
              /\ failedStage' = "GetFileAttributesW"
              /\ pc' = "CoInitializeEx"
         ELSE /\ pc' = "CoInitializeEx"
              /\ UNCHANGED <<diag, exitCode, failedStage>>
    /\ trace' = Append(trace, "GetFileAttributesW")
    /\ UNCHANGED <<os, mixFormat, decodedData, decoded, wavCause, wavLeft, pulls,
                   mfFail, silenceData, rawData>>
    /\ UNCHANGED playVars

\* lines 500-504
wmain_file ==
    /\ pc = "file"
    /\ \E found \in BOOLEAN :
         IF ~found
         THEN /\ diag' = PrintError(diag, "File not found")
              /\ exitCode' = ERR_FILE_NOT_FOUND
              /\ failedStage' = "GetFileAttributesW"
              /\ pc' = "done"
         ELSE /\ pc' = "CoInitializeEx"
              /\ UNCHANGED <<diag, exitCode, failedStage>>
    /\ trace' = Append(trace, "GetFileAttributesW")
    /\ UNCHANGED <<os, mixFormat, decodedData, decoded, wavCause, wavLeft, pulls,
                   mfFail, silenceData, rawData>>
    /\ UNCHANGED playVars

\* lines 507-511
wmain_CoInitializeEx ==
    /\ pc = "CoInitializeEx"
    /\ \E ok \in BOOLEAN :
         IF ~ok
         THEN /\ diag' = PrintError(diag, "Failed to initialize COM")
              /\ exitCode' = ERR_WASAPI_INIT
              /\ failedStage' = "CoInitializeEx"
              /\ pc' = "done"
              /\ os' = os
         ELSE /\ pc' = "MFStartup"
              /\ os' = [os EXCEPT !.CoInitializeEx = @ + 1]
              /\ UNCHANGED <<diag, exitCode, failedStage>>
    /\ trace' = Append(trace, "CoInitializeEx")
    /\ UNCHANGED <<mixFormat, decodedData, decoded, wavCause, wavLeft, pulls, mfFail,
                   silenceData, rawData>>
    /\ UNCHANGED playVars

\* lines 514-521
wmain_MFStartup ==
    /\ pc = "MFStartup"
    /\ \E ok \in BOOLEAN :
         IF ~ok
         THEN /\ diag' = PrintError(diag, "Failed to initialize Media Foundation")
              /\ os' = [os EXCEPT !.CoUninitialize = @ + 1]
              /\ exitCode' = ERR_DECODE_FAILED
              /\ failedStage' = "MFStartup"
              /\ pc' = "done"
         ELSE /\ pc' = "GetDeviceMixFormat"
              /\ os' = [os EXCEPT !.MFStartup = @ + 1]
              /\ exitCode' = 0
              /\ UNCHANGED <<diag, failedStage>>
    /\ trace' = Append(trace, "MFStartup")
    /\ UNCHANGED <<mixFormat, decodedData, decoded, wavCause, wavLeft, pulls, mfFail,
                   silenceData, rawData>>
    /\ UNCHANGED playVars

\* the calls of GetDeviceMixFormat that can fail (lines 65-76)
MixFormatCalls == {"CoCreateInstance", "GetDefaultAudioEndpoint", "Activate", "GetMixFormat"}

\* lines 523-528, with GetDeviceMixFormat (lines 57-86): any of its calls may
\* fail; it releases what it acquired and returns whether GetMixFormat succeeded
wmain_GetDeviceMixFormat ==
    /\ pc = "GetDeviceMixFormat"
    /\ \/ \E failing \in MixFormatCalls :
            /\ diag' = PrintError(diag, "Failed to get device format")
            /\ exitCode' = ERR_WASAPI_INIT
            /\ failedStage' = "GetDeviceMixFormat"
            /\ mixFormat' = mixFormat
            /\ pc' = "cleanup"
       \/ \E fmt \in MixFormats :
            /\ mixFormat' = fmt
            /\ pc' = "TryReadWavDirect"
            /\ UNCHANGED <<diag, exitCode, failedStage>>
    /\ trace' = Append(trace, "GetDeviceMixFormat")
    /\ UNCHANGED <<os, decodedData, decoded, wavCause, wavLeft, pulls, mfFail,
                   silenceData, rawData>>
    /\ UNCHANGED playVars

\* a faulty variant of wmain_TryReadWavDirect: no fallback to the general
\* decoder when the direct path fails
wmain_TryReadWavDirect_noFallback ==
    /\ pc = "TryReadWavDirect"
    /\ \E file \in Files :
         LET r == TryReadWavDirect(file, decodedData, mixFormat.nSamplesPerSec,
                                   mixFormat.nChannels)
         IN  /\ decodedData' = r.audioData
             /\ wavLeft' = r.audioData
             /\ decoded' = r.ret
             /\ wavCause' = r.cause
             /\ pc' = "decoded"
    /\ trace' = Append(trace, "TryReadWavDirect")
    /\ UNCHANGED <<exitCode, failedStage, diag, os, mixFormat, pulls, mfFail, silenceData, rawData>>
    /\ UNCHANGED playVars

\* lines 530-537: the direct path on the file the program was given
wmain_TryReadWavDirect ==
    /\ pc = "TryReadWavDirect"
    /\ \E file \in Files :
         LET r == TryReadWavDirect(file, decodedData, mixFormat.nSamplesPerSec,
                                   mixFormat.nChannels)
         IN  /\ decodedData' = r.audioData
             /\ wavLeft' = r.audioData
             /\ decoded' = r.ret
             /\ wavCause' = r.cause
             /\ pc' = IF r.ret THEN "decoded" ELSE "DecodeAudioFile"
    /\ trace' = Append(trace, "TryReadWavDirect")
    /\ UNCHANGED <<exitCode, failedStage, diag, os, mixFormat, pulls, mfFail, silenceData, rawData>>
    /\ UNCHANGED playVars

\* ------------------------------------------------------------------------
\* DecodeAudioFile (lines 229-311), called by wmain at line 536
\* ------------------------------------------------------------------------

\* lines 245-261: the calls that configure the output media type; a failure
\* of one of them leaves the function without a diagnostic
MediaTypeCalls == {"MFCreateMediaType", "SetGUID", "SetUINT32"}

\* line 303 and line 310, then wmain's line 536: the function returns
\* success and wmain stores it in decoded
DecodeReturn(ok) ==
    /\ decoded' = ok
    /\ pc' = "decoded"

\* lines 236-267: the source reader is created and configured
DecodeAudioFile_open ==
    /\ pc = "DecodeAudioFile"
    /\ \/ /\ diag' = PrintError(diag, "Failed to open audio file")
          /\ DecodeReturn(FALSE)
       \/ /\ \E failing \in MediaTypeCalls : diag' = diag
          /\ DecodeReturn(FALSE)
       \/ /\ diag' = PrintError(diag, "Failed to set output format")
          /\ DecodeReturn(FALSE)
       \/ /\ pc' = "ReadSample"
          /\ UNCHANGED <<diag, decoded>>
    /\ trace' = Append(trace, "DecodeAudioFile")
    /\ UNCHANGED <<exitCode, failedStage, os, mixFormat, decodedData, wavCause, wavLeft,
                   pulls, mfFail, silenceData, rawData>>
    /\ UNCHANGED playVars

\* the float samples of a packet of n samples appended at oldSize
Packet(oldSize, n) == [j \in 1..n |-> Dyadic(2 * (oldSize + j) + 1, 8)]

\* line 303: success = !decodedData.empty()
DecodeSuccess(data) == data # <<>>

\* lines 270-303: one iteration of the read loop.  ReadSample fails, reports
\* end of stream, delivers no sample, or delivers a packet whose conversion or
\* lock may fail; the loop is left at a failure of ReadSample or at end of stream
DecodeAudioFile_ReadSample ==
    /\ pc = "ReadSample"
    /\ \/ /\ mfFail' = mfFail \cup {"ReadSample"}
          /\ DecodeReturn(DecodeSuccess(decodedData))
          /\ UNCHANGED <<decodedData, pulls>>
       \/ /\ DecodeReturn(DecodeSuccess(decodedData))
          /\ UNCHANGED <<decodedData, pulls, mfFail>>
       \/ /\ pulls < MaxPulls
          /\ pulls' = pulls + 1
          /\ \/ UNCHANGED <<decodedData, mfFail>>
             \/ /\ \E failing \in {"ConvertToContiguousBuffer", "Lock"} :
                     mfFail' = mfFail \cup {failing}
                /\ UNCHANGED decodedData
             \/ /\ \E sampleCount \in 1..MaxPacketSamples :
                     decodedData' = decodedData \o Packet(Len(decodedData), sampleCount)
                /\ UNCHANGED mfFail
          /\ UNCHANGED <<pc, decoded>>
    /\ UNCHANGED <<exitCode, failedStage, diag, trace, os, mixFormat, wavCause, wavLeft,
                   silenceData, rawData>>
    /\ UNCHANGED playVars

\* ------------------------------------------------------------------------
\* wmain after the decoders (lines 539-568)
\* ------------------------------------------------------------------------

\* lines 539-553: a failed decode is reported; after a successful one Media
\* Foundation is shut down, the fade applied, the silence generated and
\* PlayAudio entered (lines 346-354).  The record of the decode stage ends here
wmain_decoded ==
    /\ pc = "decoded"
    /\ IF ~decoded
       THEN /\ diag' = PrintError(diag, "Failed to decode audio file")
            /\ exitCode' = ERR_DECODE_FAILED
            /\ failedStage' = "decode"
            /\ os' = [os EXCEPT !.CoTaskMemFree = @ + 1]
            /\ pc' = "cleanup"
            /\ UNCHANGED <<decodedData, silenceData, trace>>
       ELSE /\ os' = [os EXCEPT !.MFShutdown = @ + 1]
            /\ decodedData' = ApplyFade(decodedData, mixFormat.nSamplesPerSec,
                                        mixFormat.nChannels)
            /\ silenceData' = GenerateSilence(mixFormat.nSamplesPerSec,
                                              mixFormat.nChannels)
            /\ trace' = trace \o <<"ApplyFade", "GenerateSilence", "PlayAudio">>
            /\ pc' = "CoCreateInstance"
            /\ UNCHANGED <<diag, exitCode, failedStage>>
    /\ wavCause' = "none"
    /\ wavLeft' = <<>>
    /\ pulls' = 0
    /\ mfFail' = {}
    /\ UNCHANGED <<mixFormat, decoded, rawData>>
    /\ UNCHANGED playVars

\* lines 562-568
wmain_cleanup ==
    /\ pc = "cleanup"
    /\ os' = [os EXCEPT !.MFShutdown = IF exitCode = ERR_WASAPI_INIT THEN @ + 1 ELSE @,
                        !.CoUninitialize = @ + 1]
    /\ pc' = "done"
    /\ UNCHANGED <<exitCode, failedStage, diag, trace, mixFormat, decodedData, decoded,
                   wavCause, wavLeft, pulls, mfFail, silenceData, rawData>>
    /\ UNCHANGED playVars

\* ------------------------------------------------------------------------
\* PlayAudio (lines 344-487), called by wmain at line 553
\* ------------------------------------------------------------------------

\* lines 356-422: the calls before the streaming loop, in order
InitSteps == <<"CoCreateInstance", "GetDefaultAudioEndpoint", "Activate", "CreateEvent",
               "Initialize", "SetEventHandle", "GetBufferSize", "GetService", "Start">>

\* the message PrintError gets when the call fails
InitMessage ==
    [CoCreateInstance        |-> "Failed to create device enumerator",
     GetDefaultAudioEndpoint |-> "Failed to get default audio device",
     Activate                |-> "Failed to activate audio client",
     CreateEvent             |-> "Failed to create event",
     Initialize              |-> "Failed to initialize audio client",
     SetEventHandle          |-> "Failed to set event handle",
     GetBufferSize           |-> "Failed to get buffer size",
     GetService              |-> "Failed to get render client",
     Start                   |-> "Failed to start audio client"]

\* the pointer or handle a successful call stores
Acquires ==
    [CoCreateInstance        |-> {"deviceEnumerator"},
     GetDefaultAudioEndpoint |-> {"device"},
     Activate                |-> {"audioClient"},
     CreateEvent             |-> {"eventHandle"},
     Initialize              |-> {},
     SetEventHandle          |-> {},
     GetBufferSize           |-> {},
     GetService              |-> {"renderClient"},
     Start                   |-> {}]

StepIndex(step) == CHOOSE i \in 1..Len(InitSteps) : InitSteps[i] = step

\* where a successful initialization call continues: the next call, or the
\* for loop over the sources
AfterInitStep(step) ==
    IF StepIndex(step) < Len(InitSteps) THEN InitSteps[StepIndex(step) + 1] ELSE "source"

\* a faulty variant of PlayAudio_init: a failure prints its message but does
\* not leave the block, the next call follows
PlayAudio_init_noBreak ==
    /\ \E i \in 1..Len(InitSteps) : pc = InitSteps[i]
    /\ \/ /\ diag' = PrintError(diag, InitMessage[pc])
          /\ playFail' = playFail \cup {pc}
          /\ pc' = AfterInitStep(pc)
          /\ clock' = IF pc = "Start" THEN "running" ELSE clock
          /\ UNCHANGED <<held, bufferFrameCount>>
       \/ /\ held' = held \cup Acquires[pc]
          /\ IF pc = "GetBufferSize"
             THEN \E n \in 1..MaxCapacity : bufferFrameCount' = n
             ELSE bufferFrameCount' = bufferFrameCount
          /\ clock' = IF pc = "Start" THEN "running" ELSE clock
          /\ pc' = AfterInitStep(pc)
          /\ UNCHANGED <<diag, playFail>>
    /\ UNCHANGED <<exitCode, failedStage, trace, os, mixFormat, decodedData, decoded,
                   wavCause, wavLeft, pulls, mfFail, silenceData, rawData>>
    /\ UNCHANGED <<released, source, frameIndex, waitResult, numFramesPadding, hrFailed,
                   success, padding, rendered, writes>>

\* lines 356-422: one call of the initialization.  A failure prints its
\* message and leaves the do-while block (break) for the releases
PlayAudio_init ==
    /\ \E i \in 1..Len(InitSteps) : pc = InitSteps[i]
    /\ \/ /\ diag' = PrintError(diag, InitMessage[pc])
          /\ playFail' = playFail \cup {pc}
          /\ pc' = "release"
          /\ UNCHANGED <<held, bufferFrameCount, clock>>
       \/ /\ held' = held \cup Acquires[pc]
          /\ IF pc = "GetBufferSize"
             THEN \E n \in 1..MaxCapacity : bufferFrameCount' = n
             ELSE bufferFrameCount' = bufferFrameCount
          /\ clock' = IF pc = "Start" THEN "running" ELSE clock
          /\ pc' = AfterInitStep(pc)
          /\ UNCHANGED <<diag, playFail>>
    /\ UNCHANGED <<exitCode, failedStage, trace, os, mixFormat, decodedData, decoded,
                   wavCause, wavLeft, pulls, mfFail, silenceData, rawData>>
    /\ UNCHANGED <<released, source, frameIndex, waitResult, numFramesPadding, hrFailed,
                   success, padding, rendered, writes>>

\* a faulty variant of Sources: the program buffer ahead of the lead-in
Sources_programFirst == <<decodedData, silenceData, rawData>>

\* line 425: sources[] = { &leadIn, &audioData }
Sources == <<silenceData, decodedData>>

\* line 429: totalFrames of the source the for loop is at
TotalFrames == Len(Sources[source]) \div mixFormat.nChannels

\* lines 426-432: the head of the for loop.  After the last source the loop is
\* left for the drain; an empty source is skipped; otherwise the while loop is
\* entered at frame 0, or not at all for a source of less than one frame
PlayAudio_source ==
    /\ pc = "source"
    /\ IF source > Len(Sources)
       THEN /\ pc' = "drain"
            /\ UNCHANGED <<source, frameIndex>>
       ELSE IF Sources[source] = <<>> \/ TotalFrames = 0
       THEN /\ source' = source + 1
            /\ frameIndex' = 0
            /\ pc' = "source"
       ELSE /\ frameIndex' = 0
            /\ pc' = "stream"
            /\ UNCHANGED source
    /\ UNCHANGED wmainVars
    /\ UNCHANGED <<held, released, bufferFrameCount, waitResult, numFramesPadding,
                   hrFailed, success, clock, padding, rendered, writes, playFail>>

\* a faulty variant of FramesToWrite: one frame per iteration, whatever the
\* free space
FramesToWrite_oneFrame(numFramesAvailable, totalFrames, index) == 1

\* lines 444-446
FramesToWrite(numFramesAvailable, totalFrames, index) ==
    Min(numFramesAvailable, totalFrames - index)

\* line 453: the samples memcpy copies from the source, framesToWrite frames
\* from the frame at the cursor
CopiedSamples(src, index, framesToWrite, channels) ==
    SubSeq(src, index * channels + 1, (index + framesToWrite) * channels)

\* line 460 after a break out of the while loop, or the loop's end: a failed hr
\* leaves the for loop, otherwise the for loop goes on to the next source.
\* frameIndex, waitResult and the loop's numFramesPadding are locals of the
\* loop bodies: their lifetime ends here
LeaveWhile(failed) ==
    /\ IF failed
       THEN /\ pc' = "drain"
            /\ source' = source
       ELSE /\ pc' = "source"
            /\ source' = source + 1
    /\ frameIndex' = 0
    /\ waitResult' = "none"
    /\ numFramesPadding' = 0

\* lines 433-434: the wait timed out: continue
PlayAudio_timeout ==
    /\ pc = "stream"
    /\ waitResult' = "WAIT_TIMEOUT"
    /\ UNCHANGED <<pc, source, frameIndex, numFramesPadding, hrFailed, padding, rendered,
                   writes, playFail>>
    /\ UNCHANGED wmainVars
    /\ UNCHANGED <<held, released, bufferFrameCount, success, clock>>

\* line 435: the wait returned neither WAIT_TIMEOUT nor WAIT_OBJECT_0: break,
\* with hr as the last call left it
PlayAudio_waitFailed ==
    /\ pc = "stream"
    /\ playFail' = playFail \cup {"WaitForSingleObject"}
    /\ LeaveWhile(hrFailed)
    /\ UNCHANGED <<hrFailed, padding, rendered, writes>>
    /\ UNCHANGED wmainVars
    /\ UNCHANGED <<held, released, bufferFrameCount, success, clock>>

\* lines 437-456 when a device call fails: GetCurrentPadding, or GetBuffer, or
\* ReleaseBuffer after the copy (nothing is queued then): break with hr failed
PlayAudio_deviceFailed ==
    /\ pc = "stream"
    /\ \/ playFail' = playFail \cup {"GetCurrentPadding"}
       \/ /\ bufferFrameCount - padding > 0
          /\ \E failing \in {"GetBuffer", "ReleaseBuffer"} :
                playFail' = playFail \cup {failing}
    /\ hrFailed' = TRUE
    /\ LeaveWhile(TRUE)
    /\ UNCHANGED <<padding, rendered, writes>>
    /\ UNCHANGED wmainVars
    /\ UNCHANGED <<held, released, bufferFrameCount, success, clock>>

\* lines 437-458 when every call succeeds: with no free frame, continue;
\* otherwise framesToWrite frames are copied and queued and the cursor advanced.
\* At the end of the source the while loop ends (line 460 with hr succeeded)
PlayAudio_write ==
    /\ pc = "stream"
    /\ hrFailed' = FALSE
    /\ LET numFramesAvailable == bufferFrameCount - padding
           framesToWrite == FramesToWrite(numFramesAvailable, TotalFrames, frameIndex)
       IN  IF numFramesAvailable = 0
           THEN /\ waitResult' = "WAIT_OBJECT_0"
                /\ numFramesPadding' = padding
                /\ UNCHANGED <<pc, source, frameIndex, padding, rendered, writes>>
           ELSE /\ rendered' = rendered \o CopiedSamples(Sources[source], frameIndex,
                                                        framesToWrite, mixFormat.nChannels)
                /\ writes' = writes \o [j \in 1..framesToWrite |->
                                           <<source, frameIndex + j - 1>>]
                /\ padding' = padding + framesToWrite
                /\ IF frameIndex + framesToWrite < TotalFrames
                   THEN /\ frameIndex' = frameIndex + framesToWrite
                        /\ waitResult' = "WAIT_OBJECT_0"
                        /\ numFramesPadding' = padding
                        /\ UNCHANGED <<pc, source>>
                   ELSE LeaveWhile(FALSE)
    /\ UNCHANGED playFail
    /\ UNCHANGED wmainVars
    /\ UNCHANGED <<held, released, bufferFrameCount, success, clock>>

\* a faulty variant of PlayAudio_drain: the poll goes on while the call
\* succeeds, whatever the padding
PlayAudio_drain_noExit ==
    /\ pc = "drain"
    /\ \/ /\ hrFailed' = TRUE
          /\ playFail' = playFail \cup {"GetCurrentPadding"}
          /\ pc' = "stop"
          /\ UNCHANGED numFramesPadding
       \/ /\ hrFailed' = FALSE
          /\ numFramesPadding' = padding
          /\ pc' = "drain"
          /\ UNCHANGED playFail
    /\ UNCHANGED wmainVars
    /\ UNCHANGED <<held, released, bufferFrameCount, source, frameIndex, waitResult,
                   success, clock, padding, rendered, writes>>

\* lines 465-468: one round of the drain poll: Sleep(10), GetCurrentPadding;
\* the poll ends when the call fails or the padding is 0
PlayAudio_drain ==
    /\ pc = "drain"
    /\ \/ /\ hrFailed' = TRUE
          /\ playFail' = playFail \cup {"GetCurrentPadding"}
          /\ pc' = "stop"
          /\ UNCHANGED numFramesPadding
       \/ /\ hrFailed' = FALSE
          /\ numFramesPadding' = padding
          /\ pc' = IF padding > 0 THEN "drain" ELSE "stop"
          /\ UNCHANGED playFail
    /\ UNCHANGED wmainVars
    /\ UNCHANGED <<held, released, bufferFrameCount, source, frameIndex, waitResult,
                   success, clock, padding, rendered, writes>>

\* lines 471-475: Sleep(DRAIN_WAIT_MS), audioClient->Stop(), success = true
PlayAudio_stop ==
    /\ pc = "stop"
    /\ clock' = "stopped"
    /\ success' = TRUE
    /\ pc' = "release"
    /\ UNCHANGED wmainVars
    /\ UNCHANGED <<held, released, bufferFrameCount, source, frameIndex, waitResult,
                   numFramesPadding, hrFailed, padding, rendered, writes, playFail>>

\* lines 479-486, then wmain's lines 553-559: what was acquired is released
\* (with the audio client its stream and ring buffer go), PlayAudio returns
\* success and its other locals end, wmain reports a failure and frees the format
PlayAudio_return ==
    /\ pc = "release"
    /\ released' = [r \in Resources |-> IF r \in held THEN released[r] + 1 ELSE released[r]]
    /\ padding' = 0
    /\ bufferFrameCount' = 0
    /\ source' = 1
    /\ numFramesPadding' = 0
    /\ hrFailed' = FALSE
    /\ IF ~success
       THEN /\ diag' = PrintError(diag, "Failed to play audio")
            /\ exitCode' = ERR_PLAYBACK_FAILED
            /\ failedStage' = "PlayAudio"
       ELSE UNCHANGED <<diag, exitCode, failedStage>>
    /\ os' = [os EXCEPT !.CoTaskMemFree = @ + 1]
    /\ pc' = "cleanup"
    /\ UNCHANGED <<trace, mixFormat, decodedData, decoded, wavCause, wavLeft, pulls,
                   mfFail, silenceData, rawData>>
    /\ UNCHANGED <<held, frameIndex, waitResult, success, clock, rendered, writes,
                   playFail>>

\* the device plays queued frames while its clock runs
Device_render ==
    /\ clock = "running"
    /\ padding > 0
    /\ \E n \in 1..padding : padding' = padding - n
    /\ UNCHANGED pc
    /\ UNCHANGED wmainVars
    /\ UNCHANGED <<held, released, bufferFrameCount, source, frameIndex, waitResult,
                   numFramesPadding, hrFailed, success, clock, rendered, writes, playFail>>

Next ==
    \/ wmain_args
    \/ wmain_file
    \/ wmain_CoInitializeEx
    \/ wmain_MFStartup
    \/ wmain_GetDeviceMixFormat
    \/ wmain_TryReadWavDirect
    \/ DecodeAudioFile_open
    \/ DecodeAudioFile_ReadSample
    \/ wmain_decoded
    \/ PlayAudio_init
    \/ PlayAudio_source
    \/ PlayAudio_timeout
    \/ PlayAudio_waitFailed
    \/ PlayAudio_deviceFailed
    \/ PlayAudio_write
    \/ PlayAudio_drain
    \/ PlayAudio_stop
    \/ PlayAudio_return
    \/ wmain_cleanup
    \/ Device_render

Spec == Init /\ [][Next]_vars

\* ------------------------------------------------------------------------
\* Properties
\* ------------------------------------------------------------------------

InTrace(call) == \E i \in 1..Len(trace) : trace[i] = call

IsPrefix(a, b) == Len(a) <= Len(b) /\ SubSeq(b, 1, Len(a)) = a

\* the frames <<s, 0>>, <<s, 1>>, ... of the buffer buf played as source s
FramesOf(s, buf) == [j \in 1..(Len(buf) \div mixFormat.nChannels) |-> <<s, j - 1>>]

\* the samples of the whole frames of buf
WholeFrames(buf) == SubSeq(buf, 1, (Len(buf) \div mixFormat.nChannels) * mixFormat.nChannels)

\* every lead-in frame, then every program frame
ExpectedWrites == FramesOf(1, silenceData) \o FramesOf(2, decodedData)

ExpectedRendered == WholeFrames(silenceData) \o WholeFrames(decodedData)

\* the calls of the streaming loop (lines 433-456)
StreamCalls == {"WaitForSingleObject", "GetCurrentPadding", "GetBuffer", "ReleaseBuffer"}

\* the calls that create and configure the endpoint and the session (lines 358-415)
ConfigCalls == {"CoCreateInstance", "GetDefaultAudioEndpoint", "Activate", "CreateEvent",
                "Initialize", "SetEventHandle", "GetBufferSize", "GetService"}

\* C1: in a PlayAudio run in which no wait and no device call has failed, the
\* frames handed to the device are at every moment a prefix of "the lead-in
\* frames, then the program frames", and once the streaming loop is over they
\* are exactly that sequence: each frame once, in order, no program frame
\* ahead of a lead-in frame; the samples handed over are those frames' samples.
C1_FramesInOrder ==
    (InTrace("PlayAudio") /\ playFail = {}) =>
        /\ IsPrefix(writes, ExpectedWrites)
        /\ IsPrefix(rendered, ExpectedRendered)
        /\ (pc \in {"drain", "stop"} \/ success) =>
              /\ writes = ExpectedWrites
              /\ rendered = ExpectedRendered

\* a run without any failure that played two or more frames of each source,
\* one frame at a time
C1_Witness ==
    /\ pc = "release"
    /\ success
    /\ playFail = {}
    /\ Len(silenceData) \div mixFormat.nChannels >= 2
    /\ Len(decodedData) \div mixFormat.nChannels >= 2
    /\ writes = ExpectedWrites
    /\ bufferFrameCount = 1

\* C2: no partial playback is reported as success: a run that called PlayAudio
\* exits 0 only if every lead-in and program frame was handed to the device,
\* and a run that started the stream and did not hand over every frame exits 5
\* (stated for the runs whose program buffer is not empty).
C2_NoPartialSuccess ==
    (pc = "done" /\ InTrace("PlayAudio") /\ decodedData # <<>>) =>
        /\ (exitCode = 0 => writes = ExpectedWrites)
        /\ (clock # "idle" /\ writes # ExpectedWrites => exitCode = ERR_PLAYBACK_FAILED)

\* C3: once a call of the streaming loop has failed (a wait result other than
\* timeout or signaled, the padding query, GetBuffer, ReleaseBuffer), no
\* further frame is handed to the device.
C3_AbortStopsWrites ==
    [][(playFail \cap StreamCalls # {}) => writes' = writes]_vars

\* C4: a failure to create or configure the endpoint or the session exits 4,
\* and exit code 5 comes only from a streaming loop that aborted after the
\* stream was started.
C4_InitFailureExits4 ==
    pc = "done" =>
        /\ (playFail \cap ConfigCalls # {} => exitCode = ERR_WASAPI_INIT)
        /\ (exitCode = ERR_PLAYBACK_FAILED =>
               clock # "idle" /\ playFail \cap StreamCalls # {})

\* the calls of wmain's stages, in pipeline order
StageOrder == <<"argc", "GetFileAttributesW", "CoInitializeEx", "MFStartup",
                "GetDeviceMixFormat", "TryReadWavDirect", "DecodeAudioFile",
                "ApplyFade", "GenerateSilence", "PlayAudio">>

StagePosition(call) == CHOOSE i \in 1..Len(StageOrder) : StageOrder[i] = call

\* the last call a failed stage made, and the exit code of the stage
StageLastCall(stage) == IF stage = "decode" THEN "DecodeAudioFile" ELSE stage

StageCode(stage) ==
    CASE stage = "none"               -> 0
      [] stage = "argc"               -> ERR_INVALID_ARGS
      [] stage = "GetFileAttributesW" -> ERR_FILE_NOT_FOUND
      [] stage = "CoInitializeEx"     -> ERR_WASAPI_INIT
      [] stage = "MFStartup"          -> ERR_DECODE_FAILED
      [] stage = "GetDeviceMixFormat" -> ERR_WASAPI_INIT
      [] stage = "decode"             -> ERR_DECODE_FAILED
      [] stage = "PlayAudio"          -> ERR_PLAYBACK_FAILED

\* C5: the stages run at most once and in pipeline order; the first stage that
\* reports failure to wmain is the last one invoked; the process exits with
\* that stage's code (0 if none failed); a path that does not exist exits 2
\* after the argument and file checks alone, with no COM, Media Foundation or
\* device call made.
C5_StagesInOrder ==
    /\ \A i \in 1..(Len(trace) - 1) : StagePosition(trace[i]) < StagePosition(trace[i + 1])
    /\ failedStage # "none" =>
          /\ pc \in {"cleanup", "done"}
          /\ trace[Len(trace)] = StageLastCall(failedStage)
          /\ exitCode = StageCode(failedStage)
    /\ pc = "done" => exitCode = StageCode(failedStage)
    /\ failedStage = "GetFileAttributesW" =>
          /\ trace = <<"argc", "GetFileAttributesW">>
          /\ exitCode = ERR_FILE_NOT_FOUND
          /\ \A c \in DOMAIN os : os[c] = 0
          /\ held = {} /\ clock = "idle" /\ wavCause = "none"

\* a run whose decode stage failed after the stages before it succeeded
C5_Witness ==
    /\ pc = "done"
    /\ failedStage = "decode"
    /\ exitCode = ERR_DECODE_FAILED
    /\ trace = SubSeq(StageOrder, 1, 7)

\* the branches TryReadWavDirect returns true from
DirectSuccess == {"pcm", "float32"}

\* C6: the general decoder is invoked exactly when the direct path returned
\* failure; a failure of the direct path writes no diagnostic and sets no exit
\* code (a run decoded by the general decoder has neither); exit code 3 after
\* the direct path ran means that the general decoder ran and failed.
C6_FirstSuccessWins ==
    /\ pc \in {"DecodeAudioFile", "ReadSample", "decoded"} =>
          ((pc = "DecodeAudioFile" \/ InTrace("DecodeAudioFile"))
              <=> wavCause \notin DirectSuccess)
    /\ pc \in {"DecodeAudioFile", "ReadSample"} => diag = <<>> /\ exitCode = 0
    /\ (pc = "decoded" /\ decoded) => diag = <<>> /\ exitCode = 0
    /\ (exitCode = ERR_DECODE_FAILED /\ InTrace("TryReadWavDirect")) =>
          InTrace("DecodeAudioFile") /\ ~decoded

\* a file that is no RIFF/WAVE container, decoded by the general decoder
C6_Witness ==
    /\ pc = "decoded"
    /\ decoded
    /\ wavCause = "magic"
    /\ InTrace("DecodeAudioFile")
    /\ diag = <<>>

\* C7: whenever TryReadWavDirect returns failure, the output vector is as it
\* was on entry: empty.
C7_FailureLeavesBufferEmpty ==
    pc = "DecodeAudioFile" => wavLeft = <<>>

\* C8: whenever the decode stage reports success, the sample buffer is not empty.
C8_SuccessIsNonEmpty ==
    (pc = "decoded" /\ decoded) => decodedData # <<>>

\* C9: the general decoder reports failure whenever it appended no sample,
\* whatever the direct path left in the vector.
C9_ZeroSamplesFails ==
    (pc = "decoded" /\ InTrace("DecodeAudioFile") /\ decodedData = wavLeft) => ~decoded

\* C10: the general decoder reports failure when ReadSample, the conversion of
\* a packet or its lock failed before end of stream (here with the vector
\* empty on entry, so that what it holds is what the packets appended).
C10_NoPartialDecode ==
    (pc = "decoded" /\ wavLeft = <<>> /\ mfFail # {}) => ~decoded

\* C11: a run that exits with a code other than 0 has written exactly one line
\* to the error stream (every PrintError line and the usage line counted).
C11_OneDiagnosticLine ==
    (pc = "done" /\ exitCode # 0) => Len(diag) = 1

\* C12: the two buffers wmain passes to PlayAudio, the lead-in and the program
\* buffer, each hold a whole number of frames of the device's channel count.
C12_BuffersAreWholeFrames ==
    InTrace("PlayAudio") =>
        /\ Len(silenceData) % mixFormat.nChannels = 0
        /\ Len(decodedData) % mixFormat.nChannels = 0

\* C13: GenerateSilence returns floor(sampleRate * 0.7) * channels samples, the
\* floor taken per channel, and every sample is 0.0f.
C13_SilenceLength ==
    InTrace("GenerateSilence") =>
        /\ Len(silenceData) = ((mixFormat.nSamplesPerSec * 7) \div 10) * mixFormat.nChannels
        /\ \A i \in 1..Len(silenceData) : silenceData[i] = ZeroSample

\* C14: an iteration of the streaming loop that writes hands over exactly
\* min(capacity - padding, frames of the source - cursor) frames, at least one,
\* queues them and advances the cursor by them; the cursor stays below the
\* source's frame count while the loop runs, the ring never holds more than its
\* capacity, and with no free frame nothing is written and the cursor stays.
C14_WriteIsMinOfSpaceAndRest ==
    /\ [](pc = "stream" => frameIndex < TotalFrames)
    /\ [](padding <= bufferFrameCount)
    /\ [][LET n     == Len(writes') - Len(writes)
              avail == bufferFrameCount - padding
          IN  /\ n >= 0
              /\ n > 0 =>
                   /\ pc = "stream"
                   /\ n = Min(avail, TotalFrames - frameIndex)
                   /\ padding' = padding + n
                   /\ IF frameIndex + n < TotalFrames
                      THEN pc' = "stream" /\ frameIndex' = frameIndex + n
                      ELSE pc' = "source"
              /\ (pc = "stream" /\ avail = 0) =>
                   /\ n = 0
                   /\ pc' = "stream" => frameIndex' = frameIndex]_vars

\* the ring of two frames is full after one write of two lead-in frames, with a
\* third frame still to write
C14_Witness ==
    /\ pc = "stream"
    /\ source = 1
    /\ bufferFrameCount = 2
    /\ numFramesPadding = 0
    /\ writes = <<<<1, 0>>, <<1, 1>>>>
    /\ frameIndex = 2
    /\ padding = 2
    /\ frameIndex < TotalFrames

\* ------------------------------------------------------------------------
\* PlayAudio on its own: the runs of PlayAudio from its entry (line 346), for
\* every mix format and every program buffer of up to MaxProgramSamples
\* samples as the general decoder delivers them
\* ------------------------------------------------------------------------

\* largest program buffer PlayAudio is entered with, in samples
MaxProgramSamples == 4

\* wmain at line 553, about to run PlayAudio's first statement
PlayInit ==
    /\ pc = "CoCreateInstance"
    /\ exitCode = 0
    /\ failedStage = "none"
    /\ diag = <<>>
    /\ trace = StageOrder
    /\ os = [CoInitializeEx |-> 1, CoUninitialize |-> 0, MFStartup |-> 1,
             MFShutdown |-> 1, CoTaskMemFree |-> 0]
    /\ mixFormat \in MixFormats
    /\ \E n \in 1..MaxProgramSamples :
          decodedData = ApplyFade(Packet(0, n), mixFormat.nSamplesPerSec,
                                  mixFormat.nChannels)
    /\ decoded = TRUE
    /\ wavCause = "none"
    /\ wavLeft = <<>>
    /\ pulls = 0
    /\ mfFail = {}
    /\ silenceData = GenerateSilence(mixFormat.nSamplesPerSec, mixFormat.nChannels)
    /\ rawData = <<>>
    /\ held = {}
    /\ released = [r \in Resources |-> 0]
    /\ bufferFrameCount = 0
    /\ source = 1
    /\ frameIndex = 0
    /\ waitResult = "none"
    /\ numFramesPadding = 0
    /\ hrFailed = FALSE
    /\ success = FALSE
    /\ clock = "idle"
    /\ padding = 0
    /\ rendered = <<>>
    /\ writes = <<>>
    /\ playFail = {}

\* the statements of PlayAudio other than a wait that timed out, and wmain's
\* statements after it
PlayStep ==
    \/ PlayAudio_init
    \/ PlayAudio_source
    \/ PlayAudio_waitFailed
    \/ PlayAudio_deviceFailed
    \/ PlayAudio_write
    \/ PlayAudio_drain
    \/ PlayAudio_stop
    \/ PlayAudio_return
    \/ wmain_cleanup

PlayNext ==
    \/ PlayStep
    \/ PlayAudio_timeout
    \/ Device_render

\* a statement of PlayAudio that runs without a failing call
NoFailStep == PlayStep /\ playFail' = playFail

\* calls may fail, but the program's single thread keeps running and is not
\* held up by failures or timed-out waits for ever (the device keeps signalling
\* the buffer event); the device keeps playing what is queued while its clock
\* runs
PlaySpec == PlayInit /\ [][PlayNext]_vars /\ WF_vars(NoFailStep) /\ WF_vars(Device_render)

\* C15: under PlaySpec every PlayAudio run reaches its releases, and when no
\* call failed it has by then handed every frame of both sources to the
\* device, seen the ring empty, stopped the clock and set success; a wait that
\* times out changes neither the cursor nor the ring nor what was handed over.
C15_PlaybackTerminates ==
    /\ (pc = "CoCreateInstance") ~>
          (/\ pc = "release"
           /\ playFail = {} =>
                 /\ success
                 /\ clock = "stopped"
                 /\ padding = 0
                 /\ source > Len(Sources)
                 /\ writes = ExpectedWrites)
    /\ [][(waitResult # "WAIT_TIMEOUT" /\ waitResult' = "WAIT_TIMEOUT") =>
             /\ pc = "stream" /\ pc' = "stream"
             /\ UNCHANGED <<source, frameIndex, padding, rendered, writes, hrFailed>>]_vars

\* a run that ended with exit code 0 after both sources were played, no call
\* having failed
C15_Witness ==
    /\ pc = "done"
    /\ exitCode = 0
    /\ playFail = {}
    /\ clock = "stopped"
    /\ writes = ExpectedWrites
    /\ Len(writes) >= 4
    /\ diag = <<>>

\* C16: whenever PlayAudio is about to run the settle wait and Stop, the last
\* padding poll succeeded and returned 0, and the ring is empty.
C16_StopAfterDrained ==
    pc = "stop" => (~hrFailed /\ numFramesPadding = 0 /\ padding = 0)

\* the interfaces and the handle that are non-null once every call before
\* the call `step` has succeeded
HeldBefore(step) ==
    UNION { Acquires[InitSteps[i]] : i \in 1..(StepIndex(step) - 1) }

\* C17: when a call of the initialization before Start has failed, Start is
\* not called and the clock never runs, no frame is handed to the device,
\* PlayAudio returns false, what the earlier calls acquired (and nothing else)
\* is held, and once PlayAudio has returned each of these was released exactly
\* once and nothing else was released.
C17_InitFailureStartsNothing ==
    \A failing \in ConfigCalls :
        failing \in playFail =>
            /\ playFail = {failing}
            /\ pc \in {"release", "cleanup", "done"}
            /\ clock = "idle"
            /\ writes = <<>> /\ rendered = <<>> /\ padding = 0
            /\ ~success
            /\ held = HeldBefore(failing)
            /\ \A r \in Resources :
                  released[r] = IF pc # "release" /\ r \in held THEN 1 ELSE 0
            /\ pc = "done" => exitCode # 0

\* GetService failed: the enumerator, the device, the audio client and the
\* event handle were released, the render client never existed
C17_Witness ==
    /\ pc = "done"
    /\ playFail = {"GetService"}
    /\ held = {"deviceEnumerator", "device", "audioClient", "eventHandle"}
    /\ \A r \in held : released[r] = 1
    /\ released["renderClient"] = 0
    /\ clock = "idle"
    /\ ~success

\* ------------------------------------------------------------------------
\* ApplyFade on its own: wmain's call at line 546, for sample rates whose fade
\* window is 0, 1, 2 and 220 frames and every program buffer of up to
\* MaxFadeSamples samples
\* ------------------------------------------------------------------------

\* largest program buffer ApplyFade is called with, in samples
MaxFadeSamples == 8

\* sample rates with fadeFrames = 0, 1, 2, 220
FadeRates == {5, 200, 400, 44100}

\* wmain at line 546, about to call ApplyFade
FadeInit ==
    /\ pc = "ApplyFade"
    /\ exitCode = 0
    /\ failedStage = "none"
    /\ diag = <<>>
    /\ trace = SubSeq(StageOrder, 1, 7)
    /\ os = [CoInitializeEx |-> 1, CoUninitialize |-> 0, MFStartup |-> 1,
             MFShutdown |-> 1, CoTaskMemFree |-> 0]
    /\ mixFormat \in [nSamplesPerSec : FadeRates, nChannels : ChannelCounts]
    /\ \E n \in 0..MaxFadeSamples : decodedData = Packet(0, n)
    /\ decoded = TRUE
    /\ wavCause = "none"
    /\ wavLeft = <<>>
    /\ pulls = 0
    /\ mfFail = {}
    /\ silenceData = <<>>
    /\ rawData = <<>>
    /\ held = {}
    /\ released = [r \in Resources |-> 0]
    /\ bufferFrameCount = 0
    /\ source = 1
    /\ frameIndex = 0
    /\ waitResult = "none"
    /\ numFramesPadding = 0
    /\ hrFailed = FALSE
    /\ success = FALSE
    /\ clock = "idle"
    /\ padding = 0
    /\ rendered = <<>>
    /\ writes = <<>>
    /\ playFail = {}

\* line 546: ApplyFade(decodedData, mixFormat->nSamplesPerSec, mixFormat->nChannels)
wmain_ApplyFade ==
    /\ pc = "ApplyFade"
    /\ decodedData' = ApplyFade(decodedData, mixFormat.nSamplesPerSec, mixFormat.nChannels)
    /\ trace' = Append(trace, "ApplyFade")
    /\ pc' = "faded"
    /\ UNCHANGED <<exitCode, failedStage, diag, os, mixFormat, decoded, wavCause, wavLeft,
                   pulls, mfFail, silenceData, rawData>>
    /\ UNCHANGED playVars

FadeSpec == FadeInit /\ [][wmain_ApplyFade]_vars

\* the gain out is in multiplied by n/d
GainIs(in, out, n, d) ==
    /\ out.m = in.m
    /\ out.k = in.k
    /\ out.gn * d * in.gd = in.gn * n * out.gd

\* C18: on a buffer of at least 2 * fadeFrames frames ApplyFade keeps the
\* length, multiplies every channel of frame i < fadeFrames by i / fadeFrames
\* (0 at frame 0), every channel of a frame i of the last fadeFrames frames by
\* (totalFrames - i) / fadeFrames (1 at the window's first frame, 1 / fadeFrames
\* at the last frame), and leaves every other sample as it was.
C18_FadeRamps ==
    [][LET channels    == mixFormat.nChannels
           fadeFrames  == FadeFrames(mixFormat.nSamplesPerSec)
           totalFrames == Len(decodedData) \div channels
       IN  (pc = "ApplyFade" /\ pc' = "faded" /\ totalFrames >= 2 * fadeFrames) =>
              /\ Len(decodedData') = Len(decodedData)
              /\ \A idx \in 1..Len(decodedData) :
                    LET fr == (idx - 1) \div channels
                    IN  IF fr < fadeFrames
                        THEN GainIs(decodedData[idx], decodedData'[idx], fr, fadeFrames)
                        ELSE IF fr >= totalFrames - fadeFrames /\ fr < totalFrames
                        THEN GainIs(decodedData[idx], decodedData'[idx],
                                    totalFrames - fr, fadeFrames)
                        ELSE decodedData'[idx] = decodedData[idx]]_vars

\* six mono frames faded with a window of two frames: gains 0, 1/2, then two
\* frames untouched, then 1 and 1/2
C18_Witness ==
    /\ pc = "faded"
    /\ mixFormat = [nSamplesPerSec |-> 400, nChannels |-> 1]
    /\ Len(decodedData) = 6
    /\ decodedData[1].gn = 0
    /\ decodedData[2].gn * 2 = decodedData[2].gd
    /\ decodedData[3] = Packet(0, 6)[3]
    /\ decodedData[4] = Packet(0, 6)[4]
    /\ decodedData[5].gn = decodedData[5].gd
    /\ decodedData[6].gn * 2 = decodedData[6].gd

\* C19: on a buffer of fewer than 2 * fadeFrames frames, and on every buffer
\* when fadeFrames is 0, ApplyFade changes neither a sample nor the length.
C19_ShortBufferUntouched ==
    [][LET fadeFrames  == FadeFrames(mixFormat.nSamplesPerSec)
           totalFrames == Len(decodedData) \div mixFormat.nChannels
       IN  (pc = "ApplyFade" /\ pc' = "faded"
               /\ (totalFrames < 2 * fadeFrames \/ fadeFrames = 0)) =>
              decodedData' = decodedData]_vars

\* three mono frames at 400 Hz (a window of two frames), unchanged by the call
C19_Witness ==
    /\ pc = "faded"
    /\ mixFormat = [nSamplesPerSec |-> 400, nChannels |-> 1]
    /\ FadeFrames(mixFormat.nSamplesPerSec) = 2
    /\ decodedData = Packet(0, 3)

\* ------------------------------------------------------------------------
\* The 24-bit conversion on its own: TryReadWavDirect at line 202 with one
\* sample read into rawData, for three bytes each drawn from Bytes24
\* ------------------------------------------------------------------------

\* the byte values of a 24-bit sample: the ends of the range and both sides
\* of the sign bit
Bytes24 == {0, 1, 127, 128, 255}

\* TryReadWavDirect (called at line 532) at line 202: the vector resized to one
\* sample (line 180), the three payload bytes read (lines 190-191)
Int24Init ==
    /\ pc = "int24"
    /\ exitCode = 0
    /\ failedStage = "none"
    /\ diag = <<>>
    /\ trace = SubSeq(StageOrder, 1, 6)
    /\ os = [CoInitializeEx |-> 1, CoUninitialize |-> 0, MFStartup |-> 1,
             MFShutdown |-> 0, CoTaskMemFree |-> 0]
    /\ mixFormat \in MixFormats
    /\ decodedData = ResizeForPayload(<<>>, 1)
    /\ decoded = FALSE
    /\ wavCause = "none"
    /\ wavLeft = <<>>
    /\ pulls = 0
    /\ mfFail = {}
    /\ silenceData = <<>>
    /\ \E b0 \in Bytes24, b1 \in Bytes24, b2 \in Bytes24 : rawData = <<b0, b1, b2>>
    /\ held = {}
    /\ released = [r \in Resources |-> 0]
    /\ bufferFrameCount = 0
    /\ source = 1
    /\ frameIndex = 0
    /\ waitResult = "none"
    /\ numFramesPadding = 0
    /\ hrFailed = FALSE
    /\ success = FALSE
    /\ clock = "idle"
    /\ padding = 0
    /\ rendered = <<>>
    /\ writes = <<>>
    /\ playFail = {}

\* lines 202-208: the int24 -> float32 loop over the samples of rawData
TryReadWavDirect_int24 ==
    /\ pc = "int24"
    /\ decodedData' = ConvertPcm(rawData, 24, Len(decodedData))
    /\ pc' = "converted24"
    /\ UNCHANGED <<exitCode, failedStage, diag, trace, os, mixFormat, decoded, wavCause,
                   wavLeft, pulls, mfFail, silenceData, rawData>>
    /\ UNCHANGED playVars

Int24Spec == Int24Init /\ [][TryReadWavDirect_int24]_vars

\* the value of the 24-bit two's-complement pattern u
Signed24(u) == IF u >= 8388608 THEN u - 16777216 ELSE u

\* C20: the integer the direct path reassembles from the little-endian bytes
\* b0 b1 b2 is the two's-complement value of the 24-bit pattern, within
\* -8388608..8388607 and negative exactly when the top bit of b2 is set; the
\* sample stored is that value divided by 8388608.
C20_Reassemble24IsSigned ==
    LET b0 == rawData[1]
        b1 == rawData[2]
        b2 == rawData[3]
        v  == Signed24(b0 + 256 * b1 + 65536 * b2)
    IN  pc \in {"int24", "converted24"} =>
           /\ Reassemble24(b0, b1, b2) = v
           /\ v >= -8388608 /\ v <= 8388607
           /\ (v < 0) <=> (b2 >= 128)
           /\ pc = "converted24" =>
                 /\ decodedData = <<Dyadic(v, 23)>>
                 /\ (decodedData[1].m < 0) <=> (b2 >= 128)

\* the bytes 01 00 80 (the pattern 0x800001) converted: -8388607 / 8388608
C20_Witness ==
    /\ pc = "converted24"
    /\ rawData = <<1, 0, 128>>
    /\ decodedData = <<[m |-> -8388607, k |-> 23, gn |-> 1, gd |-> 1]>>

\* C21: when the process returns, MFShutdown was called exactly once if
\* MFStartup succeeded (and not at all otherwise), and CoUninitialize exactly
\* once if CoInitializeEx succeeded (and not at all otherwise).
C21_ShutdownOnce ==
    pc = "done" =>
        /\ os.MFShutdown = os.MFStartup
        /\ os.CoUninitialize = os.CoInitializeEx
        /\ os.MFStartup <= 1 /\ os.CoInitializeEx <= 1

====
